---- MODULE Spec2Model ----
(***************************************************************************)
(* Practice-mode recognition loop of the Sinhala Sign Language LMS         *)
(* (src/App/script.js): WebSocket lifecycle, the prediction stability      *)
(* gate (handlePrediction), the per-letter progress tracker                *)
(* (handleCorrectSign, handleIncorrectSign, completeCurrentLetter) and     *)
(* navigation (moveToNextLetter, the letter-grid click handler).           *)
(*                                                                         *)
(* Conventions.                                                            *)
(*  - Confidences are integers in percent: 0.6 is 60.                      *)
(*  - The Sinhala letters of the catalog are written by the stem of their  *)
(*    backend label ("a" for the letter that 'a_' maps to, ...).           *)
(*  - JavaScript null is NULL for labels and 0 for timestamps and timers.  *)
(*  - currentLetterIndex is 0-based as in the source; sequences are        *)
(*    1-based, hence letters[currentLetterIndex + 1].                      *)
(*  - window.practiceProgress holds references to completedLetters and     *)
(*    letterStats. Every handler that mutates either one ends with         *)
(*    saveProgress(), so at handler boundaries the saved copy and the      *)
(*    live value agree and value semantics is exact.                       *)
(***************************************************************************)
EXTENDS Integers, Sequences, FiniteSets, TLC

\* ------------------------------------------------------------------ bounds
\* Number of catalog symbols practised (a prefix of the 10-letter catalog).
NumLetters == 2
\* Caps on totalAttempts (the code counts without bound), one per
\* specification: Spec, SpecSession, SpecLearner, SpecRevisit.
MaxTotal == 3
MaxSession == 4
MaxLearner == 4
MaxRevisit == 6
\* Cap on totalAttempts in the specification of connection, sampler and
\* messages together.
MaxStream == 3
\* Length of the recorded message sequence in the wire specification.
MaxWire == 6
\* Cap on predictionStabilityCount (unbounded in the code while the
\* confidence stays below the threshold).
MaxRun == 3
\* Number of WebSocket instances created in one behaviour.
MaxSockets == 2
\* Length of the recorded message sequence in the gate specification.
MaxObs == 6
\* Length of the recorded message sequence in the held-pose specification.
MaxHold == 9
\* Length of the recorded message sequence in the jump specification.
MaxJump == 5
\* Frames of the call stack left to a recursion before the engine gives up.
MaxStack == 4

\* --------------------------------------------------------- program constants
THRESHOLD == 60
REQUIRED_ATTEMPTS == 3

Catalog == <<"a", "aa", "ae", "aee", "e", "ee", "i", "ii", "u", "uu">>

letters == SubSeq(Catalog, 1, NumLetters)

NULL == "<null>"

\* the labels the table has an entry for
TableLabels == {"a_", "aa_", "ae_", "aee_", "e_", "ee_", "i_", "ii_", "u_", "uu_"}

\* A label that names a property every object literal inherits from
\* Object.prototype, and what the lookup returns for it: the function, which is
\* truthy, so the fallback is not taken.
Inherited == "constructor"
ObjectConstructor == "<function Object>"

\* englishToSinhala[x] || x : property lookup on the object literal, with
\* fallback to the raw label when the lookup finds nothing.
englishToSinhala(x) ==
    CASE x = "a_"   -> "a"
      [] x = "aa_"  -> "aa"
      [] x = "ae_"  -> "ae"
      [] x = "aee_" -> "aee"
      [] x = "e_"   -> "e"
      [] x = "ee_"  -> "ee"
      [] x = "i_"   -> "i"
      [] x = "ii_"  -> "ii"
      [] x = "u_"   -> "u"
      [] x = "uu_"  -> "uu"
      [] x = Inherited -> ObjectConstructor
      [] OTHER      -> x

\* ------------------------------------------------------------ input domains
RawOf(l) == IF l = "a" THEN "a_" ELSE IF l = "aa" THEN "aa_"
            ELSE IF l = "ae" THEN "ae_" ELSE "aee_"

CatalogLabels == { RawOf(letters[i]) : i \in 1..NumLetters }
\* a label the table does not map
Unmapped == "zz_"
Confs == {30, 60, 90}
\* timestamps new Date().toISOString() can return
Times == {1, 2}

NotReady == [ready |-> FALSE, predicted_action |-> NULL, confidence |-> 0]

\* JavaScript undefined, the value of a property the message does not have
UNDEFINED == "<undefined>"

\* What the service's socket can deliver: text that JSON.parse rejects (data is
\* then never read), or the text of an object. An object with no
\* predicted_action has it UNDEFINED; one with no confidence has it -1, which
\* stands for undefined in comparisons (undefined >= 0.6 is false).
Garbage == [decodes |-> FALSE, data |-> NotReady]
Json(data) == [decodes |-> TRUE, data |-> data]
NoLabel == [ready |-> TRUE, predicted_action |-> UNDEFINED, confidence |-> 90]
NoConfidence == [ready |-> TRUE, predicted_action |-> "a_", confidence |-> -1]
WellFormed == [ready |-> TRUE, predicted_action |-> "a_", confidence |-> 90]
WireMsgs == {Garbage} \cup { Json(d) : d \in {NotReady, WellFormed, NoLabel, NoConfidence} }
ReadyMsgs(labels) ==
    [ready : {TRUE}, predicted_action : labels, confidence : Confs]

\* ------------------------------------------------------------------- state
VARIABLES
    video,                    \* "requested" | "stream" | "ready" | "error"
    sockets,                  \* readyState of every WebSocket created, in order
    reconnectTimers,          \* pending setTimeout(initWebSocket, 2000)
    captureTimer,             \* 0 (null) or the id of the interval
    intervals,                \* set of live setInterval ids
    listeners,                \* click listeners on next-button (= on skip-button)
    nextDisabled,             \* next-button.disabled
    currentLetterIndex,
    attempts,
    correctAttempts,
    totalAttempts,
    successfulSigns,
    currentStreak,
    lastPrediction,
    predictionStabilityCount,
    completedLetters,
    letterStats,
    practiceProgress,         \* window.practiceProgress
    performanceManager,       \* window.performanceManager is set (part_000)
    performanceLayer,         \* part_000 on the page: "absent" | "pending" (its
                              \* DOMContentLoaded listener not yet run) |
                              \* "ready" | "failed"
    isInitialized,            \* PerformanceManager's isInitialized
    setupDone,                \* the setup steps of init() that have returned
    lastMessageTime,          \* throttle clock of the patched send: 0, or 1 once a
                              \* message has passed
    inFlight,                 \* frames being encoded, by the socket current at
                              \* their tick
    lastFrame,                \* history: the frame whose encoding completed last
    lastEvent,                \* history: the last handler that changed the state
    firstMastery,             \* history: per letter, the state at its first mastery
    log,                      \* history: messages delivered (gate specifications)
    verdicts                  \* history: the finalized observations confirmed

connVars == <<video, sockets, reconnectTimers, captureTimer, intervals>>
uiVars == <<listeners, nextDisabled>>
roundVars == <<currentLetterIndex, attempts, correctAttempts>>
gateVars == <<lastPrediction, predictionStabilityCount>>
progressVars == <<totalAttempts, successfulSigns, currentStreak,
                  completedLetters, letterStats, practiceProgress>>
histVars == <<log, verdicts>>
perfVars == <<performanceManager, performanceLayer, isInitialized, setupDone>>
samplerVars == <<perfVars, lastMessageTime, inFlight, lastFrame>>
vars == <<connVars, uiVars, roundVars, gateVars, progressVars, lastEvent,
          firstMastery, histVars, samplerVars>>

\* the global ws is the instance created last (0: none yet)
ws == Len(sockets)

Range(seq) == { seq[i] : i \in 1..Len(seq) }

expectedLetter == letters[currentLetterIndex + 1]

\* letters.forEach(letter => letterStats[letter] = {...})
InitStats ==
    [l \in Range(letters) |-> [attempts |-> 0, successes |-> 0, lastCompleted |-> 0]]

NoProgress ==
    [set |-> FALSE, completed |-> <<>>, stats |-> InitStats,
     totalAttempts |-> 0, successfulSigns |-> 0, currentStreak |-> 0]

NotMastered ==
    [mastered |-> FALSE, completed |-> <<>>, lastCompleted |-> 0, successfulSigns |-> 0]

\* saveProgress(): the object written to window.practiceProgress
saveProgress(completed, stats, total, succ, streak) ==
    [set |-> TRUE, completed |-> completed, stats |-> stats,
     totalAttempts |-> total, successfulSigns |-> succ, currentStreak |-> streak]

\* The page after its scripts have run, before DOMContentLoaded's initWebcam()
\* has been answered.
PageLoaded ==
    /\ video = "requested"
    /\ sockets = <<>>
    /\ reconnectTimers = 0
    /\ captureTimer = 0
    /\ intervals = {}
    /\ listeners = 0
    /\ nextDisabled = FALSE
    /\ currentLetterIndex = 0
    /\ attempts = 0
    /\ correctAttempts = 0
    /\ totalAttempts = 0
    /\ successfulSigns = 0
    /\ currentStreak = 0
    /\ lastPrediction = NULL
    /\ predictionStabilityCount = 0
    /\ completedLetters = <<>>
    /\ letterStats = InitStats
    /\ practiceProgress = NoProgress
    /\ lastEvent = "load"
    /\ firstMastery = [l \in Range(letters) |-> NotMastered]
    /\ log = <<>>
    /\ verdicts = <<>>
    /\ lastMessageTime = 0
    /\ inFlight = {}
    /\ lastFrame = 0

\* constructor(): this.isInitialized = false, before init() is called
NotConstructed ==
    /\ performanceManager = FALSE
    /\ isInitialized = FALSE
    /\ setupDone = <<>>

\* The page that loads script.js alone.
Init ==
    /\ PageLoaded
    /\ NotConstructed
    /\ performanceLayer = "absent"

\* The page with or without the performance layer (script.js uses
\* window.performanceManager "if available"), whose DOMContentLoaded listener
\* has not run yet.
InitPage ==
    /\ PageLoaded
    /\ NotConstructed
    /\ performanceLayer \in {"absent", "pending"}

\* ------------------------------------------------------- the stability gate
\* (faulty variant: the run is never restarted)
StabilityCount_NoRestart(last, count, detected) == count + 1

\* if (lastPrediction === detectedSinhala) count++ else count = 1
StabilityCount(last, count, detected) ==
    IF last = detected THEN count + 1 ELSE 1

\* (faulty variant: a window of 2)
IsStable_Window2(count, confidence) ==
    count >= 2 /\ confidence >= THRESHOLD

\* (faulty variant: the threshold itself does not pass)
IsStable_Strict(count, confidence) ==
    count >= 3 /\ confidence > THRESHOLD

\* (faulty variant: a run counts only when it is exactly three long)
IsStable_ExactlyThree(count, confidence) == count = 3 /\ confidence >= THRESHOLD

\* predictionStabilityCount >= 3 && data.confidence >= THRESHOLD
IsStable(count, confidence) ==
    count >= 3 /\ confidence >= THRESHOLD

\* ------------------------------------------------------ progress tracking
\* detectedSinhala === expectedLetter
Matches(detected, expected) == detected = expected

\* (faulty variant: no guard against duplicate counting)
DuplicateCount_Off(correct) == FALSE

\* "Prevent duplicate counting": if (correctAttempts >= REQUIRED_ATTEMPTS) return
DuplicateCount(correct) == correct >= REQUIRED_ATTEMPTS

\* (faulty variant: mastered one match late)
ReachedRequired_Late(correct) == correct > REQUIRED_ATTEMPTS

\* if (correctAttempts >= REQUIRED_ATTEMPTS) completeCurrentLetter()
ReachedRequired(correct) == correct >= REQUIRED_ATTEMPTS

\* (faulty variant: the streak survives a miss)
StreakAfterMiss_Kept(streak) == streak

\* currentStreak = 0
StreakAfterMiss(streak) == 0

\* new Date().toISOString(): a timestamp not earlier than any recorded
ClockAllows(t) ==
    \A l \in Range(letters) : letterStats[l].lastCompleted <= t

\* (faulty variant: no completedLetters.includes(letter) test)
completeCurrentLetter_Always(stats, letter) ==
    /\ completedLetters' = Append(completedLetters, letter)
    /\ \E t \in Times :
          /\ ClockAllows(t)
          /\ letterStats' = [stats EXCEPT ![letter].lastCompleted = t]

\* completeCurrentLetter(): completedLetters and letterStats afterwards
completeCurrentLetter(stats, letter) ==
    IF letter \in Range(completedLetters)
    THEN /\ completedLetters' = completedLetters
         /\ letterStats' = stats
    ELSE /\ completedLetters' = Append(completedLetters, letter)
         /\ \E t \in Times :
               /\ ClockAllows(t)
               /\ letterStats' = [stats EXCEPT ![letter].lastCompleted = t]

handleCorrectSign ==
    LET letter == letters[currentLetterIndex + 1]
        counted == [letterStats EXCEPT ![letter].attempts = @ + 1,
                                       ![letter].successes = @ + 1]
    IN  IF DuplicateCount(correctAttempts)
        THEN /\ lastEvent' = "ignored"
             /\ UNCHANGED <<roundVars, progressVars, nextDisabled, firstMastery>>
        ELSE /\ correctAttempts' = correctAttempts + 1
             /\ attempts' = attempts + 1
             /\ totalAttempts' = totalAttempts + 1
             /\ successfulSigns' = successfulSigns + 1
             /\ currentStreak' = currentStreak + 1
             /\ IF ReachedRequired(correctAttempts + 1)
                THEN /\ completeCurrentLetter(counted, letter)
                     /\ nextDisabled' = FALSE
                     /\ firstMastery' =
                            IF firstMastery[letter].mastered THEN firstMastery
                            ELSE [firstMastery EXCEPT ![letter] =
                                    [mastered |-> TRUE,
                                     completed |-> completedLetters',
                                     lastCompleted |-> letterStats'[letter].lastCompleted,
                                     successfulSigns |-> successfulSigns']]
                ELSE /\ letterStats' = counted
                     /\ UNCHANGED <<completedLetters, nextDisabled, firstMastery>>
             /\ practiceProgress' =
                    saveProgress(completedLetters', letterStats', totalAttempts',
                                 successfulSigns', currentStreak')
             /\ lastEvent' = "correct"
             /\ UNCHANGED currentLetterIndex

\* (faulty variant: a miss is not counted in the record of the letter)
handleIncorrectSign_NoLetterCount ==
    LET letter == letters[currentLetterIndex + 1]
    IN  /\ attempts' = attempts + 1
        /\ totalAttempts' = totalAttempts + 1
        /\ currentStreak' = StreakAfterMiss(currentStreak)
        /\ letterStats' = letterStats
        /\ practiceProgress' =
               saveProgress(completedLetters, letterStats', totalAttempts',
                            successfulSigns, currentStreak')
        /\ lastEvent' = "incorrect"
        /\ UNCHANGED <<currentLetterIndex, correctAttempts, successfulSigns,
                       completedLetters, nextDisabled, firstMastery>>

handleIncorrectSign ==
    LET letter == letters[currentLetterIndex + 1]
    IN  /\ attempts' = attempts + 1
        /\ totalAttempts' = totalAttempts + 1
        /\ currentStreak' = StreakAfterMiss(currentStreak)
        /\ letterStats' = [letterStats EXCEPT ![letter].attempts = @ + 1]
        /\ practiceProgress' =
               saveProgress(completedLetters, letterStats', totalAttempts',
                            successfulSigns, currentStreak')
        /\ lastEvent' = "incorrect"
        /\ UNCHANGED <<currentLetterIndex, correctAttempts, successfulSigns,
                       completedLetters, nextDisabled, firstMastery>>

\* (faulty variant: the run survives the confirmation)
ResetStability_Kept(last, count) == [last |-> last, count |-> count]

\* predictionStabilityCount = 0; lastPrediction = null, after a confirmation
ResetStability(last, count) == [last |-> NULL, count |-> 0]

\* handlePrediction past the ready test: a finalized observation
finalizedPrediction(data) ==
    LET detectedSinhala == englishToSinhala(data.predicted_action)
        count == StabilityCount(lastPrediction, predictionStabilityCount,
                                detectedSinhala)
        reset == ResetStability(detectedSinhala, count)
    IN  IF IsStable(count, data.confidence)
        THEN /\ IF Matches(detectedSinhala, expectedLetter)
                THEN handleCorrectSign
                ELSE handleIncorrectSign
             /\ predictionStabilityCount' = reset.count
             /\ lastPrediction' = reset.last
        ELSE /\ predictionStabilityCount' = count
             /\ lastPrediction' = detectedSinhala
             /\ lastEvent' = "candidate"
             /\ UNCHANGED <<roundVars, progressVars, nextDisabled, firstMastery>>

\* (faulty variant: a not-ready message ends the run)
handlePrediction_NotReadyResets(data) ==
    IF ~data.ready
    THEN /\ predictionStabilityCount' = 0
         /\ lastPrediction' = NULL
         /\ UNCHANGED <<roundVars, progressVars, nextDisabled, lastEvent,
                        firstMastery>>
    ELSE finalizedPrediction(data)

\* if (!data.ready) { updatePredictionText("Collecting frames..."); return; }
handlePrediction(data) ==
    IF ~data.ready
    THEN UNCHANGED <<roundVars, gateVars, progressVars, nextDisabled, lastEvent,
                     firstMastery>>
    ELSE finalizedPrediction(data)

\* -------------------------------------------------------------- navigation
\* The part of the state moveToNextLetter and the grid handler work on.
NavState ==
    [idx |-> currentLetterIndex, attempts |-> attempts, correct |-> correctAttempts,
     last |-> lastPrediction, count |-> predictionStabilityCount,
     disabled |-> nextDisabled]

\* (faulty variant: declining the prompt leaves the index past the end)
WrapIndex_NoClamp(i, startOver) ==
    IF i >= Len(letters) /\ startOver THEN 0 ELSE i

\* if (currentLetterIndex >= letters.length) confirm(...) ? 0 : letters.length - 1
WrapIndex(i, startOver) ==
    IF i >= Len(letters)
    THEN IF startOver THEN 0 ELSE Len(letters) - 1
    ELSE i

\* moveToNextLetter(); updateLetterDisplay() ends with next-button.disabled = true
moveToNextLetter(n, startOver) ==
    LET i == n.idx + 1
    IN  IF i >= Len(letters) /\ ~startOver
        THEN [n EXCEPT !.idx = WrapIndex(i, startOver)]
        ELSE [idx |-> WrapIndex(i, startOver), attempts |-> 0, correct |-> 0,
              last |-> NULL, count |-> 0, disabled |-> TRUE]

\* skip-button listener: if (confirm('... skip this letter?')) moveToNextLetter()
skipListener(n, sure, startOver) ==
    IF sure THEN moveToNextLetter(n, startOver) ELSE n

\* A click runs every listener registered on the button, in registration order;
\* startOver[k] and sure[k] are the answers to the dialogs of listener k.
RECURSIVE nextListeners(_, _, _)
nextListeners(n, k, startOver) ==
    IF k = 0 THEN n
    ELSE moveToNextLetter(nextListeners(n, k - 1, startOver), startOver[k])

RECURSIVE skipListeners(_, _, _, _)
skipListeners(n, k, sure, startOver) ==
    IF k = 0 THEN n
    ELSE skipListener(skipListeners(n, k - 1, sure, startOver), sure[k], startOver[k])

\* (faulty variant: the jump keeps the round counters of the symbol left)
gridListener_KeepsRound(n, index, switch) ==
    IF switch THEN [n EXCEPT !.idx = index, !.disabled = TRUE] ELSE n

\* letter-item listener of grid position index:
\* if (confirm('Switch to practicing ...?')) { index, attempts, correctAttempts }
gridListener(n, index, switch) ==
    IF switch
    THEN [n EXCEPT !.idx = index, !.attempts = 0, !.correct = 0, !.disabled = TRUE]
    ELSE n

Navigate(n, event) ==
    /\ currentLetterIndex' = n.idx
    /\ attempts' = n.attempts
    /\ correctAttempts' = n.correct
    /\ lastPrediction' = n.last
    /\ predictionStabilityCount' = n.count
    /\ nextDisabled' = n.disabled
    /\ lastEvent' = IF n = NavState THEN lastEvent ELSE event
    /\ UNCHANGED <<connVars, listeners, progressVars, firstMastery, histVars,
                      samplerVars>>

\* the answers given to the dialogs of the listeners, one per listener
Answers == [1..listeners -> BOOLEAN]

\* the start-over answers that can follow the skip answers sure: a listener
\* whose skip dialog is declined shows no second dialog
AnswersAfter(sure) == { f \in Answers : \A k \in 1..listeners : f[k] => sure[k] }

NextWith(startOver) ==
    /\ listeners > 0
    /\ ~nextDisabled
    /\ Navigate(nextListeners(NavState, listeners, startOver), "next")

SkipWith(sure, startOver) ==
    /\ listeners > 0
    /\ Navigate(skipListeners(NavState, listeners, sure, startOver), "skip")

GridWith(index, switch) ==
    /\ listeners > 0
    /\ Navigate(gridListener(NavState, index, switch), "jump")

NextClick == \E startOver \in Answers : NextWith(startOver)

SkipClick == \E sure \in Answers : \E startOver \in AnswersAfter(sure) :
                SkipWith(sure, startOver)

GridClick == \E index \in 0..(Len(letters) - 1) : \E switch \in BOOLEAN :
                GridWith(index, switch)

\* -------------------------------------------------------------- connection
\* (faulty variant: the saved progress is not found and the session starts over)
loadProgress_Fresh ==
    /\ completedLetters' = <<>>
    /\ letterStats' = InitStats
    /\ totalAttempts' = 0
    /\ successfulSigns' = 0
    /\ currentStreak' = 0
    /\ UNCHANGED practiceProgress

\* loadProgress(): read window.practiceProgress back when it is set
loadProgress ==
    IF practiceProgress.set
    THEN /\ completedLetters' = practiceProgress.completed
         /\ letterStats' = practiceProgress.stats
         /\ totalAttempts' = practiceProgress.totalAttempts
         /\ successfulSigns' = practiceProgress.successfulSigns
         /\ currentStreak' = practiceProgress.currentStreak
         /\ UNCHANGED practiceProgress
    ELSE UNCHANGED progressVars

\* initPracticeMode(): reload, redraw (Next disabled), register the listeners
initPracticeMode ==
    /\ loadProgress
    /\ nextDisabled' = TRUE
    /\ listeners' = listeners + 1

\* startCapturing() called from the onopen of socket i
startCapturing(i) ==
    IF ws = 0 \/ sockets'[ws] # "OPEN" \/ captureTimer # 0
    THEN UNCHANGED <<captureTimer, intervals>>
    ELSE /\ captureTimer' = i
         /\ intervals' = intervals \cup {i}

\* (faulty variant: captureTimer is forgotten but the interval is not cleared)
stopCapturing_NoClear ==
    /\ captureTimer' = 0
    /\ UNCHANGED intervals

stopCapturing ==
    IF captureTimer # 0
    THEN /\ intervals' = intervals \ {captureTimer}
         /\ captureTimer' = 0
    ELSE UNCHANGED <<captureTimer, intervals>>

initWebSocket ==
    /\ Len(sockets) < MaxSockets
    /\ sockets' = Append(sockets, "CONNECTING")

\* getUserMedia is answered after the dispatch of DOMContentLoaded has ended
WebcamGranted ==
    /\ video = "requested"
    /\ performanceLayer # "pending"
    /\ video' = "stream"
    /\ lastEvent' = "webcam"
    /\ UNCHANGED <<sockets, reconnectTimers, captureTimer, intervals, uiVars,
                   roundVars, gateVars, progressVars, firstMastery, histVars,
                      samplerVars>>

WebcamDenied ==
    /\ video = "requested"
    /\ performanceLayer # "pending"
    /\ video' = "error"
    /\ lastEvent' = "webcam_error"
    /\ UNCHANGED <<sockets, reconnectTimers, captureTimer, intervals, uiVars,
                   roundVars, gateVars, progressVars, firstMastery, histVars,
                      samplerVars>>

LoadedMetadata ==
    /\ video = "stream"
    /\ video' = "ready"
    /\ initWebSocket
    /\ lastEvent' = "connect"
    /\ UNCHANGED <<reconnectTimers, captureTimer, intervals, uiVars,
                   roundVars, gateVars, progressVars, firstMastery, histVars,
                      samplerVars>>

SocketOpen ==
    \E i \in 1..Len(sockets) :
       /\ sockets[i] = "CONNECTING"
       /\ sockets' = [sockets EXCEPT ![i] = "OPEN"]
       /\ startCapturing(i)
       /\ initPracticeMode
       /\ lastEvent' = "open"
       /\ UNCHANGED <<video, reconnectTimers, roundVars, gateVars, firstMastery,
                      histVars,
                      samplerVars>>

\* (faulty variant: the close handler schedules nothing)
ScheduleReconnect_None(timers) == timers

\* (faulty variant: retries are capped, here at one connection)
ScheduleReconnect_Capped(timers) ==
    IF Len(sockets) < 2 THEN timers + 1 ELSE timers

\* setTimeout(initWebSocket, 2000): the reconnect timers pending afterwards
ScheduleReconnect(timers) == timers + 1

\* ws.onclose of socket i. The close event follows a failed or refused
\* connection attempt, an open connection that drops, a closing handshake, or
\* the error event of the same failure.
SocketClose ==
    \E i \in 1..Len(sockets) :
       /\ sockets[i] \in {"CONNECTING", "OPEN", "CLOSING", "FAILED"}
       /\ sockets' = [sockets EXCEPT ![i] = "CLOSED"]
       /\ stopCapturing
       /\ reconnectTimers' = ScheduleReconnect(reconnectTimers)
       /\ lastEvent' = "close"
       /\ UNCHANGED <<video, uiVars, roundVars, gateVars, progressVars,
                      firstMastery, histVars,
                      samplerVars>>

\* (faulty variant: setInterval in place of setTimeout)
TimerFired_Repeating(timers) == timers

\* a timeout fires once
TimerFired(timers) == timers - 1

ReconnectTimer ==
    /\ reconnectTimers > 0
    /\ reconnectTimers' = TimerFired(reconnectTimers)
    /\ initWebSocket
    /\ lastEvent' = "connect"
    /\ UNCHANGED <<video, captureTimer, intervals, uiVars,
                   roundVars, gateVars, progressVars, firstMastery, histVars,
                      samplerVars>>

\* ------------------------------------------------------ performance layer
\* init(): the setup steps, in the order they are called
SetupSteps ==
    <<"setupLazyLoading", "setupImageOptimization", "setupResourcePreloading",
      "setupCaching", "setupPerformanceMonitoring", "setupWebSocketOptimization",
      "setupMemoryManagement">>

\* this.preloadResource(href, as): the class body defines preloadResource twice
\* and the later definition, of the "Public API", replaces the one that appends
\* the link element. It calls itself, not in tail position; depth is the number
\* of its frames on the stack, and the engine throws a RangeError when the stack
\* is full.
RECURSIVE preloadResource(_)
preloadResource(depth) ==
    IF depth >= MaxStack THEN "RangeError" ELSE preloadResource(depth + 1)

\* preloadCriticalResources(): three calls of this.preloadResource; an
\* exception of one ends it
preloadCriticalResources ==
    IF \E call \in 1..3 : preloadResource(1) = "RangeError"
    THEN "RangeError"
    ELSE "returned"

\* setupResourcePreloading(): preloadCriticalResources(), then
\* preloadNextPageResources(), which registers listeners only. The other setup
\* steps register observers, listeners and timers, or replace window.fetch and
\* WebSocket.prototype.send, and return.
RunSetup(step) ==
    IF step = "setupResourcePreloading" THEN preloadCriticalResources ELSE "returned"

\* the setup steps from the i-th on: those that returned, and whether one threw
RECURSIVE RunSetups(_)
RunSetups(i) ==
    IF i > Len(SetupSteps)
    THEN [done |-> <<>>, threw |-> FALSE]
    ELSE IF RunSetup(SetupSteps[i]) = "RangeError"
    THEN [done |-> <<>>, threw |-> TRUE]
    ELSE LET rest == RunSetups(i + 1)
         IN  [done |-> <<SetupSteps[i]>> \o rest.done, threw |-> rest.threw]

\* init(): if (this.isInitialized) return; the setup steps; isInitialized = true
init(initialized) ==
    IF initialized
    THEN [done |-> <<>>, threw |-> FALSE, isInitialized |-> TRUE]
    ELSE LET r == RunSetups(1)
         IN  [done |-> r.done, threw |-> r.threw, isInitialized |-> ~r.threw]

\* WebSocket.prototype.send has been replaced (setupWebSocketOptimization ran)
SendPatched == \E i \in 1..Len(setupDone) : setupDone[i] = "setupWebSocketOptimization"

\* The layer's DOMContentLoaded listener:
\* window.performanceManager = new PerformanceManager(). The constructor calls
\* init(); an exception of init() leaves the constructor and the listener, so
\* the assignment is not made.
PerformanceLoaded ==
    /\ performanceLayer = "pending"
    /\ LET r == init(isInitialized)
       IN  /\ setupDone' = r.done
           /\ isInitialized' = r.isInitialized
           /\ performanceManager' = ~r.threw
           /\ performanceLayer' = IF r.threw THEN "failed" ELSE "ready"
    /\ lastEvent' = "performance"
    /\ UNCHANGED <<connVars, uiVars, roundVars, gateVars, progressVars,
                   firstMastery, histVars, lastMessageTime, inFlight, lastFrame>>

\* ----------------------------------------------------------- frame sampler
\* ws.readyState of the current connection is OPEN
CurrentOpen == ws > 0 /\ sockets[ws] = "OPEN"

\* (faulty variant: the tick does not look at the connection)
ReadyToCapture_Unchecked == TRUE

\* capture(): if (!ws || ws.readyState !== WebSocket.OPEN) { stopCapturing(); return; }
ReadyToCapture == CurrentOpen

\* (faulty variant: the callback sends without looking at the connection)
ReadyToSend_Unchecked == TRUE

\* if (ws && ws.readyState === WebSocket.OPEN) ws.send(buffer)
ReadyToSend == CurrentOpen

\* Between the error event and the close event of one failure: the browser
\* dispatches both in one task, no timer or promise callback runs in between.
MidTask == \E i \in 1..Len(sockets) : sockets[i] = "FAILED"

\* A tick of a live interval: capture() either stops the sampler or draws the
\* frame and starts encoding it (canvas.toBlob).
Tick ==
    /\ ~MidTask
    /\ \E i \in intervals :
          IF ReadyToCapture
          THEN /\ inFlight' = inFlight \cup {ws}
               /\ lastEvent' = "capture"
               /\ UNCHANGED <<captureTimer, intervals>>
          ELSE /\ stopCapturing
               /\ lastEvent' = "halt"
               /\ UNCHANGED inFlight
    /\ UNCHANGED <<video, sockets, reconnectTimers, uiVars, roundVars, gateVars,
                   progressVars, firstMastery, histVars, perfVars,
                   lastMessageTime, lastFrame>>

\* ws.send(buffer) of an encoded frame. Once setupWebSocketOptimization has
\* run, WebSocket.prototype.send is the compressing wrapper around the
\* throttling wrapper around the native send: a buffer of more than 1024 bytes
\* makes the compressing wrapper call this.compressData on the socket, which has
\* no such method (a TypeError); a smaller one is passed on and sent unless the
\* last message that passed is 100 ms old or less.
send ==
    IF ~SendPatched
    THEN /\ lastEvent' = "sent"
         /\ UNCHANGED lastMessageTime
    ELSE \E large \in BOOLEAN : \E soon \in BOOLEAN :
            IF large
            THEN /\ lastEvent' = "send_error"
                 /\ UNCHANGED lastMessageTime
            ELSE IF soon /\ lastMessageTime # 0
            THEN /\ lastEvent' = "throttled"
                 /\ UNCHANGED lastMessageTime
            ELSE /\ lastEvent' = "sent"
                 /\ lastMessageTime' = 1

\* The encoding of a frame completes: the toBlob callback (no blob: return) and
\* then the arrayBuffer().then callback. Frames in flight are told apart only by
\* the socket of their tick, so others of the same tick socket may remain.
EncodeDone ==
    /\ ~MidTask
    /\ \E k \in inFlight : \E blob \in BOOLEAN : \E more \in BOOLEAN :
          /\ inFlight' = IF more THEN inFlight ELSE inFlight \ {k}
          /\ lastFrame' = k
          /\ IF ~blob
             THEN /\ lastEvent' = "noblob"
                  /\ UNCHANGED lastMessageTime
             ELSE IF ReadyToSend
             THEN send
             ELSE /\ lastEvent' = "dropped"
                  /\ UNCHANGED lastMessageTime
    /\ UNCHANGED <<connVars, uiVars, roundVars, gateVars, progressVars,
                   firstMastery, histVars, perfVars>>

\* The closing handshake of an open connection starts: readyState is CLOSING
\* until the close event; no handler runs.
ClosingHandshake ==
    /\ \E i \in 1..Len(sockets) :
          /\ sockets[i] = "OPEN"
          /\ sockets' = [sockets EXCEPT ![i] = "CLOSING"]
    /\ lastEvent' = "closing"
    /\ UNCHANGED <<video, reconnectTimers, captureTimer, intervals, uiVars,
                   roundVars, gateVars, progressVars, firstMastery, histVars,
                   samplerVars>>

\* ws.onerror of socket i: console.error and updatePredictionText only. The
\* browser has set readyState to CLOSED ("FAILED" here: closed, close event not
\* yet dispatched) and dispatches the close event next, in the same task.
SocketError ==
    /\ \E i \in 1..Len(sockets) :
          /\ sockets[i] \in {"CONNECTING", "OPEN", "CLOSING"}
          /\ sockets' = [sockets EXCEPT ![i] = "FAILED"]
    /\ lastEvent' = "error"
    /\ UNCHANGED <<video, reconnectTimers, captureTimer, intervals, uiVars,
                   roundVars, gateVars, progressVars, firstMastery, histVars,
                   samplerVars>>

\* ws.onmessage of an open socket: JSON.parse, then handlePrediction
Deliver(data) ==
    /\ \E i \in 1..Len(sockets) : sockets[i] = "OPEN"
    /\ handlePrediction(data)
    /\ UNCHANGED <<connVars, listeners, samplerVars>>

\* ws.onmessage on the raw message: try { handlePrediction(JSON.parse(text)) }
\* catch (err) { console.error(...) }
onmessage(w) ==
    IF w.decodes
    THEN handlePrediction(w.data)
    ELSE UNCHANGED <<roundVars, gateVars, progressVars, nextDisabled, lastEvent,
                     firstMastery>>

\* A confirmed observation was emitted by the step: handlePrediction called
\* handleCorrectSign or handleIncorrectSign.
Verdicts == {"correct", "ignored", "incorrect"}

Confirmed(data) == data.ready /\ lastEvent' \in Verdicts

\* The finalized (ready) observations of a message sequence, in order.
Finalized(msgs) == SelectSeq(msgs, LAMBDA d : d.ready)

\* Deliver, recording the message and, when it was confirmed, its position among
\* the finalized observations.
Record(data) ==
    /\ Deliver(data)
    /\ log' = Append(log, data)
    /\ verdicts' = IF Confirmed(data)
                   THEN Append(verdicts, Len(Finalized(log')))
                   ELSE verdicts

\* ---------------------------------------------------------- specifications
Setup ==
    \/ WebcamGranted
    \/ WebcamDenied
    \/ LoadedMetadata
    \/ SocketOpen

Navigation ==
    \/ NextClick
    \/ SkipClick
    \/ GridClick

\* The whole system: connection loss and reconnection, any classifier output
\* over the catalog's labels, any navigation.
OnMessage ==
    \E data \in ReadyMsgs(CatalogLabels) \cup {NotReady} :
       /\ Deliver(data)
       /\ predictionStabilityCount' <= MaxRun
       /\ totalAttempts' <= MaxTotal
       /\ UNCHANGED histVars

Next ==
    \/ Setup
    \/ SocketClose
    \/ ReconnectTimer
    \/ OnMessage
    \/ Navigation

Spec == Init /\ [][Next]_vars

\* One connection that stays open: longer practice sessions.
SessionMessage ==
    \E data \in ReadyMsgs(CatalogLabels) \cup {NotReady} :
       /\ Deliver(data)
       /\ predictionStabilityCount' <= MaxRun
       /\ totalAttempts' <= MaxSession
       /\ UNCHANGED histVars

NextSession ==
    \/ Setup
    \/ SessionMessage
    \/ Navigation

SpecSession == Init /\ [][NextSession]_vars

\* The whole system with a learner who only ever shows the current letter.
LearnerMessage ==
    \E data \in ReadyMsgs({RawOf(expectedLetter)}) \cup {NotReady} :
       /\ Deliver(data)
       /\ predictionStabilityCount' <= MaxRun
       /\ totalAttempts' <= MaxLearner
       /\ UNCHANGED histVars

NextLearner ==
    \/ Setup
    \/ SocketClose
    \/ ReconnectTimer
    \/ LearnerMessage
    \/ Navigation

SpecLearner == Init /\ [][NextLearner]_vars

\* One connection and that learner, for longer: symbols can be mastered more
\* than once.
RevisitMessage ==
    \E data \in ReadyMsgs({RawOf(expectedLetter)}) \cup {NotReady} :
       /\ Deliver(data)
       /\ predictionStabilityCount' <= MaxRun
       /\ totalAttempts' <= MaxRevisit
       /\ UNCHANGED histVars

NextRevisit ==
    \/ Setup
    \/ RevisitMessage
    \/ Navigation

SpecRevisit == Init /\ [][NextRevisit]_vars

\* The stability gate alone: every sequence of up to MaxObs messages over two
\* labels, recorded.
GateLabels == {"a_", "aa_"}

GateMessage ==
    \E data \in ReadyMsgs(GateLabels) \cup {NotReady} :
       /\ Len(log) < MaxObs
       /\ Record(data)

NextGate ==
    \/ Setup
    \/ GateMessage

SpecGate == Init /\ [][NextGate]_vars

\* A held pose: every finalized observation of a behaviour is the same
\* (label, confidence); up to MaxHold messages, recorded.
HoldMessage ==
    \E data \in ReadyMsgs(GateLabels \cup {Unmapped, Inherited}) \cup {NotReady} :
       /\ Len(log) < MaxHold
       /\ \A i \in 1..Len(log) : (data.ready /\ log[i].ready) => log[i] = data
       /\ Record(data)

NextHold ==
    \/ Setup
    \/ HoldMessage

SpecHold == Init /\ [][NextHold]_vars

\* Connection and frame sampler, on a page with or without the performance
\* layer: failures, closing handshakes, reconnects, ticks and encodings in any
\* order.
NextSampler ==
    \/ PerformanceLoaded
    \/ Setup
    \/ SocketClose
    \/ ReconnectTimer
    \/ ClosingHandshake
    \/ SocketError
    \/ Tick
    \/ EncodeDone

SpecSampler == InitPage /\ [][NextSampler]_vars

\* The same with the timers of the browser firing: a pending setTimeout
\* callback is eventually run.
SpecSamplerFair == SpecSampler /\ WF_vars(ReconnectTimer)

\* Raw messages on one connection: every sequence of up to MaxWire messages,
\* undecodable, incomplete or well-formed, recorded.
WireMessage ==
    \E w \in WireMsgs :
       /\ Len(log) < MaxWire
       /\ \E i \in 1..Len(sockets) : sockets[i] = "OPEN"
       /\ onmessage(w)
       /\ log' = Append(log, w)
       /\ verdicts' = IF w.decodes /\ Confirmed(w.data)
                      THEN Append(verdicts, Len(log'))
                      ELSE verdicts
       /\ UNCHANGED <<connVars, listeners, samplerVars>>

NextWire ==
    \/ Setup
    \/ WireMessage

SpecWire == Init /\ [][NextWire]_vars

\* Connection, sampler and the service's answers together: a learner who shows
\* the current letter and does not navigate, while the connection fails and
\* comes back and frames are captured and sent.
StreamMessage ==
    \E data \in ReadyMsgs({RawOf(expectedLetter)}) \cup {NotReady} :
       /\ ~MidTask
       /\ Deliver(data)
       /\ predictionStabilityCount' <= MaxRun
       /\ totalAttempts' <= MaxStream
       /\ UNCHANGED histVars

NextStream ==
    \/ NextSampler
    \/ StreamMessage

SpecStream == InitPage /\ [][NextStream]_vars

\* Jumps between confident observations on one connection: every sequence of
\* up to MaxJump messages, each recorded with whether the last thing that
\* happened before it was a jump to another symbol (not-ready messages leave
\* that as it was).
JumpMessage ==
    \E data \in { d \in ReadyMsgs(GateLabels) : d.confidence > THRESHOLD } \cup {NotReady} :
       /\ Len(log) < MaxJump
       /\ Deliver(data)
       /\ log' = Append(log, [data |-> data, afterJump |-> lastEvent = "jump"])
       /\ verdicts' = IF Confirmed(data) THEN Append(verdicts, Len(log')) ELSE verdicts

GridOther ==
    \E index \in 0..(Len(letters) - 1) : \E switch \in BOOLEAN :
       /\ index # currentLetterIndex
       /\ GridWith(index, switch)

NextJump ==
    \/ Setup
    \/ JumpMessage
    \/ GridOther

SpecJump == Init /\ [][NextJump]_vars

\* ------------------------------------------------------------------ claims
\* The finalized observations recorded so far, their mapped labels, and the
\* number of confirmations among positions i..j.
obs == Finalized(log)

Label(i) == englishToSinhala(obs[i].predicted_action)

VerdictsIn(i, j) == Cardinality({ k \in 1..Len(verdicts) : verdicts[k] \in i..j })

\* positions i..j are a maximal run of one label
MaximalRun(i, j) ==
    /\ i <= j
    /\ \A k \in i..j : Label(k) = Label(i)
    /\ i = 1 \/ Label(i - 1) # Label(i)
    /\ j = Len(obs) \/ Label(j + 1) # Label(j)

Confident(i, j) == \A k \in i..j : obs[k].confidence >= THRESHOLD

\* C1: a sequence of finalized observations, fed from the reset gate, that has
\* no 3 consecutive observations with the same mapped label produces no
\* confirmed observation (and records no attempt), whatever the confidences.
C1_NoShortRunConfirmation ==
    (\A i \in 1..(Len(obs) - 2) : ~(Label(i) = Label(i + 1) /\ Label(i + 1) = Label(i + 2)))
        => (verdicts = <<>> /\ totalAttempts = 0 /\ attempts = 0)

\* four or more confident observations that alternate, none confirmed
C1_Witness ==
    /\ Len(obs) >= 4
    /\ \A i \in 1..(Len(obs) - 1) : Label(i) # Label(i + 1)
    /\ Confident(1, Len(obs))
    /\ verdicts = <<>>

\* C2 (as claimed): every maximal run of n >= 3 finalized observations with one
\* label, each confident, gets exactly one confirmed observation.
C2_OnePerRun ==
    \A i \in 1..Len(obs) : \A j \in i..Len(obs) :
        (MaximalRun(i, j) /\ j - i + 1 >= 3 /\ Confident(i, j))
            => VerdictsIn(i, j) = 1

\* C2 (amended): such a run of length n gets exactly n \div 3 confirmed
\* observations, one at every third observation of the run.
C2_OnePerThree ==
    \A i \in 1..Len(obs) : \A j \in i..Len(obs) :
        (MaximalRun(i, j) /\ j - i + 1 >= 3 /\ Confident(i, j))
            => /\ VerdictsIn(i, j) = (j - i + 1) \div 3
               /\ \A k \in i..j :
                     (k \in Range(verdicts)) <=> ((k - i + 1) % 3 = 0)

\* a held pose of six confident observations, confirmed twice
C2_Witness ==
    /\ Len(obs) = 6
    /\ MaximalRun(1, 6)
    /\ Confident(1, 6)
    /\ verdicts = <<3, 6>>

\* the last confirmed position before p (0 when there is none)
LastVerdictBefore(p) ==
    IF \E k \in 1..Len(verdicts) : verdicts[k] < p
    THEN CHOOSE v \in Range(verdicts) :
            v < p /\ \A k \in 1..Len(verdicts) : verdicts[k] < p => verdicts[k] <= v
    ELSE 0

\* C3: an observation with confidence below 0.6 is never confirmed, however
\* long the run; an observation with confidence exactly 0.6 that is at least
\* the third of its label since the last confirmation is confirmed.
C3_ThresholdGate ==
    /\ \A k \in 1..Len(verdicts) : obs[verdicts[k]].confidence >= THRESHOLD
    /\ \A p \in 3..Len(obs) :
          (/\ obs[p].confidence = THRESHOLD
           /\ Label(p) = Label(p - 1) /\ Label(p - 1) = Label(p - 2)
           /\ p - LastVerdictBefore(p) >= 3)
              => p \in Range(verdicts)

\* a run of four: the third, below the threshold, is not confirmed; the
\* fourth, exactly at the threshold, is
C3_Witness ==
    /\ Len(obs) = 4
    /\ MaximalRun(1, 4)
    /\ obs[3].confidence < THRESHOLD
    /\ obs[4].confidence = THRESHOLD
    /\ verdicts = <<4>>

\* the step emitted a confirmed observation (where no log is recorded, every
\* step that changes the state sets lastEvent to what it did)
ConfirmedStep == lastEvent' \in Verdicts

\* C4: correctAttempts of the current symbol stays within 0..REQUIRED_ATTEMPTS
\* whatever the interleaving of observations, navigation and reconnects, and a
\* matching confirmed observation that finds it at REQUIRED_ATTEMPTS changes no
\* round counter and no progress.
C4_CorrectAttemptsBounded ==
    /\ [](correctAttempts \in 0..REQUIRED_ATTEMPTS)
    /\ [][(/\ correctAttempts = REQUIRED_ATTEMPTS
           /\ lastPrediction = expectedLetter
           /\ ConfirmedStep)
             => UNCHANGED <<roundVars, progressVars>>]_vars

\* a fourth matching confirmation arrived for the mastered symbol and was ignored
C4_Witness ==
    /\ correctAttempts = REQUIRED_ATTEMPTS
    /\ lastEvent = "ignored"
    /\ successfulSigns = REQUIRED_ATTEMPTS

\* the message a recording step delivered
Delivered == log'[Len(log')]

\* a recording step that confirmed an observation with the current symbol's label
MatchStep ==
    /\ Len(log') = Len(log) + 1
    /\ Delivered.ready
    /\ englishToSinhala(Delivered.predicted_action) = expectedLetter
    /\ Len(verdicts') = Len(verdicts) + 1

HeldPose(n, label, confidence) ==
    /\ Len(obs) = n
    /\ \A i \in 1..n : /\ obs[i].predicted_action = label
                      /\ obs[i].confidence = confidence

\* C5: while correctAttempts < REQUIRED_ATTEMPTS a confirmed observation with
\* the current symbol's label adds one to correctAttempts, attempts,
\* totalAttempts, successfulSigns, currentStreak and the symbol's own attempts
\* and successes, and the symbol is in completedLetters afterwards exactly if it
\* was before or correctAttempts has become REQUIRED_ATTEMPTS; nine
\* observations ('a_', 0.9) from a cold start give three confirmed matches and
\* completedLetters = <<a>>.
C5_MatchCounts ==
    /\ [][(MatchStep /\ correctAttempts < REQUIRED_ATTEMPTS) =>
            /\ correctAttempts' = correctAttempts + 1
            /\ attempts' = attempts + 1
            /\ totalAttempts' = totalAttempts + 1
            /\ successfulSigns' = successfulSigns + 1
            /\ currentStreak' = currentStreak + 1
            /\ currentLetterIndex' = currentLetterIndex
            /\ \A l \in Range(letters) :
                  /\ letterStats'[l].attempts =
                        letterStats[l].attempts + (IF l = expectedLetter THEN 1 ELSE 0)
                  /\ letterStats'[l].successes =
                        letterStats[l].successes + (IF l = expectedLetter THEN 1 ELSE 0)
            /\ \A l \in Range(letters) :
                  (l \in Range(completedLetters')) <=>
                     \/ l \in Range(completedLetters)
                     \/ l = expectedLetter /\ correctAttempts' = REQUIRED_ATTEMPTS]_vars
    /\ [](HeldPose(9, "a_", 90) =>
            /\ verdicts = <<3, 6, 9>>
            /\ correctAttempts = 3
            /\ successfulSigns = 3
            /\ totalAttempts = 3
            /\ completedLetters = <<"a">>)

\* nine observations ('a_', 0.9) delivered, the letter mastered
C5_Witness ==
    /\ HeldPose(9, "a_", 90)
    /\ successfulSigns = 3
    /\ completedLetters = <<"a">>

\* C6: a confirmed observation whose label differs from the current symbol adds
\* one to attempts, totalAttempts and the symbol's own attempts, sets the streak
\* to 0 and leaves correctAttempts, successfulSigns, completedLetters and
\* currentLetterIndex unchanged.
C6_MissCounts ==
    [][(ConfirmedStep /\ lastPrediction # expectedLetter) =>
          /\ attempts' = attempts + 1
          /\ totalAttempts' = totalAttempts + 1
          /\ currentStreak' = 0
          /\ letterStats' = [letterStats EXCEPT ![expectedLetter].attempts = @ + 1]
          /\ UNCHANGED <<correctAttempts, successfulSigns, completedLetters,
                         currentLetterIndex>>]_vars

\* a miss was recorded after a success: the streak it reset was not 0
C6_Witness ==
    /\ lastEvent = "incorrect"
    /\ successfulSigns > 0
    /\ totalAttempts > successfulSigns
    /\ currentStreak = 0

\* C7 (as claimed): once the current symbol is mastered, a confirmed
\* observation, matching or not, changes no round counter and no progress.
C7_MasteredQuiescent ==
    [][(correctAttempts = REQUIRED_ATTEMPTS /\ ConfirmedStep)
          => UNCHANGED <<roundVars, progressVars>>]_vars

\* a step that masters the current symbol when it is already in completedLetters
Remastery ==
    /\ lastEvent' = "correct"
    /\ correctAttempts' = REQUIRED_ATTEMPTS
    /\ correctAttempts < REQUIRED_ATTEMPTS
    /\ expectedLetter \in Range(completedLetters)

\* C8 (as claimed): after a second mastery of a symbol, completedLetters, the
\* symbol's lastCompleted and successfulSigns are what they were after its
\* first mastery.
C8_SecondMasterySame ==
    [][Remastery =>
          /\ firstMastery[expectedLetter].mastered
          /\ completedLetters' = firstMastery[expectedLetter].completed
          /\ letterStats'[expectedLetter].lastCompleted =
                firstMastery[expectedLetter].lastCompleted
          /\ successfulSigns' = firstMastery[expectedLetter].successfulSigns]_vars

\* C8 (amended): a second mastery leaves completedLetters as it is (the symbol
\* is in it once) and the symbol's lastCompleted as its first mastery set it;
\* successfulSigns is not kept: it has grown by one for each further confirmed
\* match, at least REQUIRED_ATTEMPTS in all.
C8_SecondMasteryKeepsCompletion ==
    [][Remastery =>
          /\ firstMastery[expectedLetter].mastered
          /\ completedLetters' = completedLetters
          /\ Cardinality({ i \in 1..Len(completedLetters') :
                              completedLetters'[i] = expectedLetter }) = 1
          /\ letterStats'[expectedLetter].lastCompleted =
                firstMastery[expectedLetter].lastCompleted
          /\ successfulSigns' = successfulSigns + 1
          /\ successfulSigns' >=
                firstMastery[expectedLetter].successfulSigns + REQUIRED_ATTEMPTS]_vars

\* a symbol mastered twice: six successes on it, completed once, and Next enabled
C8_Witness ==
    /\ lastEvent = "correct"
    /\ correctAttempts = REQUIRED_ATTEMPTS
    /\ letterStats[expectedLetter].successes >= 2 * REQUIRED_ATTEMPTS
    /\ firstMastery[expectedLetter].mastered
    /\ successfulSigns > firstMastery[expectedLetter].successfulSigns

\* what the claim says an advance does; restart is the answer to the prompt
AdvanceEffect(restart) ==
    LET last == Len(letters) - 1
        reset == /\ attempts' = 0
                 /\ correctAttempts' = 0
                 /\ lastPrediction' = NULL
                 /\ predictionStabilityCount' = 0
    IN  /\ currentLetterIndex < last => (currentLetterIndex' = currentLetterIndex + 1 /\ reset)
        /\ (currentLetterIndex = last /\ restart) => (currentLetterIndex' = 0 /\ reset)
        /\ (currentLetterIndex = last /\ ~restart) => UNCHANGED <<roundVars, gateVars>>
        /\ UNCHANGED progressVars

\* C9 (as claimed): one activation of Next, or of Skip once confirmed, moves to
\* the next symbol and resets the round counters and the gate; at the last
\* symbol it wraps to the first on confirmation and changes nothing on decline;
\* totals, streak and completedLetters are unchanged.
C9_Advance ==
    [][/\ \A startOver \in Answers :
             NextWith(startOver) => AdvanceEffect(startOver[1])
       /\ \A sure \in Answers : \A startOver \in AnswersAfter(sure) :
             (SkipWith(sure, startOver) /\ sure[1]) => AdvanceEffect(startOver[1])]_vars

\* C10: currentLetterIndex is always a position of the catalog.
C10_IndexInCatalog ==
    /\ currentLetterIndex \in 0..(Len(letters) - 1)
    /\ expectedLetter \in Range(letters)

\* the index came back to 0 by wrapping at the end of the catalog
C10_Witness ==
    /\ lastEvent \in {"next", "skip"}
    /\ currentLetterIndex = 0

\* a step that handles the close event of a socket
CloseStep ==
    \E i \in 1..Len(sockets) : sockets[i] # "CLOSED" /\ sockets'[i] = "CLOSED"

\* a step that handles the error event of a socket
ErrorStep ==
    \E i \in 1..Len(sockets) : sockets[i] # "FAILED" /\ sockets'[i] = "FAILED"

\* a step in which a connecting socket opens
OpenStep ==
    \E i \in 1..Len(sockets) : sockets[i] = "CONNECTING" /\ sockets'[i] = "OPEN"

\* the sampler is stopped: no interval is live
SamplerStopped == captureTimer = 0 /\ intervals = {}

\* C11: the step that handles a connection close cancels the sampler's timer
\* and schedules exactly one reconnect; a tick captures a frame, and a frame is
\* sent, only while the current connection is OPEN.
C11_Disconnection ==
    /\ [][CloseStep => /\ SamplerStopped'
                       /\ reconnectTimers' = reconnectTimers + 1]_vars
    /\ [][lastEvent' \in {"capture", "sent"} => CurrentOpen]_vars

\* an open connection dropped while a frame was being encoded: the sampler is
\* stopped and one reconnect is pending
C11_Witness ==
    /\ lastEvent = "close"
    /\ inFlight # {}
    /\ SamplerStopped
    /\ reconnectTimers = 1

\* the current connection is closed and the model can still create another
Dropped == ws > 0 /\ sockets[ws] = "CLOSED" /\ ws < MaxSockets

\* C12: after a connection drops, the reconnect timer eventually fires and a
\* new connection is attempted; when an attempt reaches OPEN the sampler runs
\* with exactly one timer, with no user action.
C12_Recovery ==
    /\ Dropped ~> (ws > 0 /\ sockets[ws] = "CONNECTING")
    /\ [][OpenStep => /\ captureTimer' # 0
                      /\ intervals' = {captureTimer'}]_vars

\* the second connection is open and a frame of it is being encoded
C12_Witness ==
    /\ Len(sockets) >= 2
    /\ sockets[1] = "CLOSED"
    /\ sockets[2] = "OPEN"
    /\ captureTimer = 2
    /\ intervals = {2}
    /\ 2 \in inFlight

Live == { i \in 1..Len(sockets) : sockets[i] \in {"CONNECTING", "OPEN"} }

EncodedStep == lastEvent' \in {"sent", "dropped", "throttled", "send_error"}

C16_SingleTimer ==
    /\ [](/\ Cardinality(intervals) <= 1
          /\ intervals = IF captureTimer = 0 THEN {} ELSE {captureTimer})
    /\ [][OpenStep => Cardinality(intervals') = 1]_vars
    /\ [][(CloseStep \/ lastEvent' = "halt") => SamplerStopped']_vars
    /\ [][(CloseStep /\ SamplerStopped) => UNCHANGED <<captureTimer, intervals>>]_vars
    /\ [][lastEvent' \in {"capture", "halt"} => captureTimer # 0]_vars

\* the sampler ran on the first connection, was stopped, and runs again,
\* alone, on a later one
C16_Witness ==
    /\ Len(sockets) >= 2
    /\ sockets[Len(sockets)] = "OPEN"
    /\ intervals = {Len(sockets)}
    /\ lastEvent = "capture"
    /\ 1 \in inFlight

\* C17 (as claimed): the error event by itself halts the sampler and schedules
\* exactly one reconnect; the close event that follows it schedules no second.
C17_ErrorHandling ==
    /\ [][ErrorStep => /\ SamplerStopped'
                       /\ reconnectTimers' = 1]_vars
    /\ [][(CloseStep /\ MidTask) => reconnectTimers' = 1]_vars

\* C18 (as claimed): a frame is transmitted only on the connection that was
\* current at its tick.
C18_NoCrossConnectionFrames ==
    [][lastEvent' = "sent" => lastFrame' = ws]_vars

\* the events in which the session is the learner's to change
SessionEvents == Verdicts \cup {"next", "skip", "jump"}

\* C19: the round counters, the totals, the streak, completedLetters and the
\* per-letter records change only in a step that processes a confirmed
\* observation or a navigation request; ticks, encodings, unconfirmed and
\* not-ready observations and open, close and error events, the reload of the
\* saved progress on every open included, leave them unchanged.
C19_SessionOwnership ==
    [][lastEvent' \notin SessionEvents => UNCHANGED <<roundVars, progressVars>>]_vars

\* a reconnect reloaded the progress of a session that had mastered a letter
C19_Witness ==
    /\ lastEvent = "open"
    /\ Len(sockets) >= 2
    /\ practiceProgress.set
    /\ completedLetters # <<>>
    /\ successfulSigns = REQUIRED_ATTEMPTS

\* a message that cannot be decoded, or has no label, or has no confidence
Malformed(w) ==
    \/ ~w.decodes
    \/ w.data.ready /\ (w.data.predicted_action = UNDEFINED \/ w.data.confidence < 0)

\* C20 (as claimed): a message that cannot be decoded, or that lacks a label or
\* a confidence, changes nothing of the session: no attempt is recorded and
\* the streak is not reset.
C20_MalformedDiscarded ==
    [][(Len(log') = Len(log) + 1 /\ Malformed(log'[Len(log')]))
          => UNCHANGED <<roundVars, progressVars>>]_vars

\* the first position of the run the gate is in after the last finalized
\* observation: the observations from it on have one label and none of them
\* before the last was confirmed
RunStart ==
    CHOOSE i \in 1..Len(obs) :
       /\ \A k \in i..Len(obs) : Label(k) = Label(Len(obs))
       /\ i > LastVerdictBefore(Len(obs))
       /\ \A j \in 1..(i - 1) :
             ~(/\ \A k \in j..Len(obs) : Label(k) = Label(Len(obs))
               /\ j > LastVerdictBefore(Len(obs)))

\* C21: a not-ready message changes neither the gate nor the session and is
\* never counted as an attempt; the gate is a function of the finalized
\* observations alone, so a run interrupted only by not-ready messages goes on.
C21_NotReadyInert ==
    /\ [][(Len(log') = Len(log) + 1 /\ ~Delivered.ready)
             => UNCHANGED <<gateVars, roundVars, progressVars, nextDisabled>>]_vars
    /\ []((obs # <<>> /\ Len(obs) \notin Range(verdicts))
             => /\ lastPrediction = Label(Len(obs))
                /\ predictionStabilityCount = Len(obs) - RunStart + 1)

\* a run of three with a not-ready message after each of the first two,
\* confirmed at its third observation
C21_Witness ==
    /\ Len(log) = 5
    /\ ~log[2].ready
    /\ ~log[4].ready
    /\ Len(obs) = 3
    /\ verdicts = <<3>>

\* the mapping as claimed: the table's symbol for a label of the table, any
\* other label unchanged
ClaimedMap(x) == IF x \in TableLabels THEN englishToSinhala(x) ELSE x

\* C22 (as claimed): the label the gate keeps and the match test uses for a
\* finalized observation is the table's symbol for its label, or the label
\* itself, unchanged, when the table has no entry for it; the observation is
\* treated as matching exactly if that is the current symbol.
C22_LabelMapping ==
    [][(Len(log') = Len(log) + 1 /\ Delivered.ready)
          => LET mapped == ClaimedMap(Delivered.predicted_action)
             IN  /\ lastPrediction' \in {mapped, NULL}
                 /\ ConfirmedStep =>
                       ((lastEvent' \in {"correct", "ignored"})
                           <=> (mapped = expectedLetter))]_vars

\* C23: a confirmation leaves the gate at {null, 0}, neither of the next two
\* finalized observations is confirmed, whatever their labels and confidences,
\* and any two confirmations are at least three finalized observations apart.
C23_FreshRun ==
    /\ [][(Len(log') = Len(log) + 1 /\ Confirmed(Delivered))
             => (lastPrediction' = NULL /\ predictionStabilityCount' = 0)]_vars
    /\ [](\A k \in 1..Len(verdicts) :
             /\ verdicts[k] + 1 \notin Range(verdicts)
             /\ verdicts[k] + 2 \notin Range(verdicts)
             /\ k > 1 => verdicts[k] - verdicts[k - 1] >= 3)

\* a confirmation of one label, then three confident observations of the
\* other, confirmed at the third
C23_Witness ==
    /\ Len(obs) = 6
    /\ Label(3) # Label(4)
    /\ Confident(1, 6)
    /\ verdicts = <<3, 6>>
    /\ lastPrediction = NULL
    /\ predictionStabilityCount = 0

\* C24: an observation below the threshold still extends or restarts the run
\* and never resets it to 0, so the first observation that is at least the
\* third of its run since the last confirmation and is confident is confirmed,
\* whatever the confidences of the observations before it.
C24_SubThresholdCounts ==
    /\ [][(Len(log') = Len(log) + 1 /\ Delivered.ready
              /\ Delivered.confidence < THRESHOLD)
             => /\ lastPrediction' = englishToSinhala(Delivered.predicted_action)
                /\ predictionStabilityCount' =
                      IF lastPrediction = lastPrediction'
                      THEN predictionStabilityCount + 1
                      ELSE 1]_vars
    /\ [](\A p \in 3..Len(obs) :
             (/\ obs[p].confidence >= THRESHOLD
              /\ Label(p) = Label(p - 1) /\ Label(p - 1) = Label(p - 2)
              /\ p - LastVerdictBefore(p) >= 3)
                 => p \in Range(verdicts))

\* two confident observations, a third below the threshold, and the fourth,
\* confident again, confirmed
C24_Witness ==
    /\ Len(obs) = 4
    /\ MaximalRun(1, 4)
    /\ Confident(1, 2)
    /\ obs[3].confidence < THRESHOLD
    /\ obs[4].confidence > THRESHOLD
    /\ verdicts = <<4>>

\* C25: a confirmed jump to position index makes it the current position and
\* sets attempts and correctAttempts to 0; the totals, the streak, the mastered
\* symbols and the per-symbol records are unchanged. A declined jump changes
\* nothing.
C25_Jump ==
    [][\A index \in 0..(Len(letters) - 1) : \A switch \in BOOLEAN :
          GridWith(index, switch) =>
             IF switch
             THEN /\ currentLetterIndex' = index
                  /\ attempts' = 0
                  /\ correctAttempts' = 0
                  /\ UNCHANGED progressVars
             ELSE UNCHANGED <<roundVars, gateVars, progressVars, nextDisabled>>]_vars

\* the first symbol was mastered and the learner jumped to the second
C25_Witness ==
    /\ lastEvent = "jump"
    /\ currentLetterIndex = 1
    /\ attempts = 0
    /\ correctAttempts = 0
    /\ completedLetters = <<letters[1]>>
    /\ successfulSigns = REQUIRED_ATTEMPTS
    /\ currentStreak = REQUIRED_ATTEMPTS

\* the index one position on; restart is the answer to the prompt at the end
OneStep(restart) ==
    currentLetterIndex' =
        IF currentLetterIndex < Len(letters) - 1 THEN currentLetterIndex + 1
        ELSE IF restart THEN 0 ELSE currentLetterIndex

\* C26 (as claimed): one activation of Next, or of Skip once confirmed, changes
\* the current position by exactly one (to the first at the end, or not at all
\* when the restart is declined), however many times the connection was opened.
C26_OneActivationOneStep ==
    [][/\ \A startOver \in Answers :
             NextWith(startOver) => OneStep(startOver[1])
       /\ \A sure \in Answers : \A startOver \in AnswersAfter(sure) :
             (SkipWith(sure, startOver) /\ sure[1]) => OneStep(startOver[1])]_vars

\* C27 (as claimed): once the practice session has started, Next is enabled
\* exactly when correctAttempts = REQUIRED_ATTEMPTS, also after a disconnect
\* and reconnect.
C27_AdvanceTracksMastery ==
    listeners > 0 => (~nextDisabled <=> (correctAttempts = REQUIRED_ATTEMPTS))

\* C28 (as claimed): a confirmed observation that follows a jump to another
\* symbol is at least the third finalized observation with its label received
\* since that jump. (The log of the jump specification; verdicts are positions
\* of the log.)
C28_NoStaleRun ==
    \A k \in 1..Len(verdicts) :
       LET p == verdicts[k]
           label == englishToSinhala(log[p].data.predicted_action)
       IN  \A q \in 1..p :
              (log[q].data.ready /\ log[q].afterJump)
                 => Cardinality({ r \in q..p :
                       /\ log[r].data.ready
                       /\ englishToSinhala(log[r].data.predicted_action) = label }) >= 3

\* the sum of a field over the per-letter records of the first n letters
RECURSIVE SumStats(_, _)
SumStats(field, n) ==
    IF n = 0 THEN 0
    ELSE SumStats(field, n - 1)
           + (IF field = "attempts" THEN letterStats[letters[n]].attempts
              ELSE letterStats[letters[n]].successes)

\* C29: from a cold start, successes never exceed attempts, in the totals, in
\* the round and per symbol; the streak never exceeds the total successes; and
\* the totals are the sums of the per-symbol attempts and successes.
C29_CounterConsistency ==
    /\ successfulSigns <= totalAttempts
    /\ correctAttempts <= attempts
    /\ currentStreak <= successfulSigns
    /\ \A l \in Range(letters) : letterStats[l].successes <= letterStats[l].attempts
    /\ totalAttempts = SumStats("attempts", Len(letters))
    /\ successfulSigns = SumStats("successes", Len(letters))

\* matches and a miss on both symbols, the progress reloaded on a second
\* connection
C29_Witness ==
    /\ Len(sockets) >= 2
    /\ lastEvent = "open"
    /\ totalAttempts = MaxTotal
    /\ successfulSigns > 0
    /\ successfulSigns < totalAttempts
    /\ \A l \in {letters[1], letters[2]} : letterStats[l].attempts > 0

\* C30 (as claimed): PerformanceManager.init(), called on the fresh instance,
\* runs every setup step once, returns and leaves isInitialized = true; the
\* calls of preloadResource return.
C30_InitTerminates ==
    performanceLayer \notin {"absent", "pending"}
        => /\ isInitialized
           /\ setupDone = SetupSteps
           /\ performanceManager

====
